---- MODULE Spec2Model ----
(***************************************************************************)
(* Sift Backend (src/main.py): a blocklist HTTP API over a hosted table.   *)
(*                                                                         *)
(* The handlers hold no state of their own; all durable state is the       *)
(* "blocklist" table of the datastore.  A POST /report request makes two   *)
(* datastore calls (an existence select, then an insert or an update), so  *)
(* requests served by different workers interleave at those calls.  Each   *)
(* datastore call is one atomic step: it either takes effect and returns,  *)
(* or raises and has no effect.                                            *)
(***************************************************************************)
EXTENDS Integers, Sequences, FiniteSets, Bags, TLC

\* Number of HTTP requests the clients send in one behaviour.
MaxReq == 3

\* Python's None (an absent header, an omitted reason, an unset variable).
NoneVal == "None"

Users == {"u1", "u2"}
Reasons == {NoneVal, "spam"}
\* x-api-key header values a client may send.
Keys == {NoneVal, "", "s3cret"}
\* Values os.getenv("API_SECRET") may give at startup.
Secrets == {NoneVal, "", "s3cret", "hunter2"}

VARIABLES
    API_SECRET,  \* the configured secret, read once at startup
    rows,        \* the datastore's "blocklist" table: a sequence of rows
    dbUp,        \* whether a datastore call succeeds right now
    reqs         \* the bag of requests: inputs, handler position, locals, response

vars == <<API_SECRET, rows, dbUp, reqs>>

\* Python truthiness of an Optional[str]: None and "" are falsy.
Falsy(s) == s = NoneVal \/ s = ""

----------------------------------------------------------------------------
\* The datastore's operations on the table.

\* table("blocklist").select(...).eq("user_id", u): the matching rows.
SelectEq(t, u) == SelectSeq(t, LAMBDA row : row.user_id = u)

\* Mutant: the update without its .eq("user_id", u) filter.
UpdateEq_noFilter(t, u, cnt, reason) ==
    [i \in DOMAIN t |-> [t[i] EXCEPT !.block_count = cnt, !.reason = reason]]

\* Mutant: the update writes the counter and keeps the old reason.
UpdateEq_keepReason(t, u, cnt, reason) ==
    [i \in DOMAIN t |->
        IF t[i].user_id = u THEN [t[i] EXCEPT !.block_count = cnt] ELSE t[i]]

\* table("blocklist").update({block_count, reason}).eq("user_id", u)
UpdateEq(t, u, cnt, reason) ==
    [i \in DOMAIN t |->
        IF t[i].user_id = u
        THEN [t[i] EXCEPT !.block_count = cnt, !.reason = reason]
        ELSE t[i]]

\* user_id is the table's primary key: an insert of a present key is refused.
PrimaryKeyViolation(t, u) == \E i \in DOMAIN t : t[i].user_id = u

\* Mutant: the insert drops the reason.
InsertRow_noReason(t, u, reason) ==
    Append(t, [user_id |-> u, reason |-> NoneVal, block_count |-> 1])

\* Mutant: the insert starts the counter at 0.
InsertRow_fromZero(t, u, reason) ==
    Append(t, [user_id |-> u, reason |-> reason, block_count |-> 0])

\* table("blocklist").insert({user_id, reason, block_count: 1})
InsertRow(t, u, reason) ==
    Append(t, [user_id |-> u, reason |-> reason, block_count |-> 1])

\* existing.data[0].get("block_count", 1) or 1: a falsy stored count reads
\* as 1.  The handlers store integers only, so the falsy case is 0.
CurrentCount(data) == IF data[1].block_count = 0 THEN 1 ELSE data[1].block_count

\* The orders in which a select may return the rows of t.
Orders(t) ==
    {p \in [DOMAIN t -> DOMAIN t] : \A i, j \in DOMAIN t : p[i] = p[j] => i = j}

\* Mutant: the comprehension skips the first row.
UserLists_skipFirst(t) ==
    {[i \in 1..(Len(t) - 1) |-> t[p[i + 1]].user_id] : p \in Orders(t)}

\* [row["user_id"] for row in response.data], for each order of the rows.
UserLists(t) == {[i \in DOMAIN t |-> t[p[i]].user_id] : p \in Orders(t)}

----------------------------------------------------------------------------
\* Requests.  Two requests with equal inputs at the same position of the same
\* handler are interchangeable, so the requests form a bag of records.

New ==
    [endpoint |-> "none", pc |-> "new", user_id |-> NoneVal, reason |-> NoneVal,
     x_api_key |-> NoneVal, current_count |-> 0, result |-> 0, status |-> 0,
     count |-> 0, users |-> <<>>, body |-> "",
     \* history, not program state:
     calls |-> 0, wrote |-> "none", prior |-> 0, returned |-> {},
     inserted |-> {}, db |-> TRUE]

All == BagToSet(reqs)

\* How many requests of the bag b satisfy P.
CountOf(b, P(_)) ==
    BagCardinality([x \in {y \in BagToSet(b) : P(y)} |-> b[x]])

\* A client sends request x.
Arrive(x) ==
    /\ BagCardinality(reqs) < MaxReq
    /\ reqs' = reqs (+) SetToBag({x})

\* The handler of request x takes a step that leaves it as y.
Step(x, y) == reqs' = (reqs (-) SetToBag({x})) (+) SetToBag({y})

\* The reports for user u that returned 200 so far.
Returned200(u) ==
    CountOf(reqs, LAMBDA x :
        x.endpoint = "report" /\ x.user_id = u /\ x.status = 200)

\* The users for whom some report returned 200 so far.
Reported == {u \in Users : Returned200(u) > 0}

\* The users for whom the insert of some report succeeded so far.
Inserted ==
    {u \in Users : \E x \in All :
        x.endpoint = "report" /\ x.user_id = u /\ x.wrote = "insert"}

\* Mutant: the check without its "not x_api_key" half.
KeyRejected_noFalsy(x_api_key) == x_api_key # API_SECRET

\* The check of lines 84-86: TRUE when the request is rejected.
KeyRejected(x_api_key) == Falsy(x_api_key) \/ x_api_key # API_SECRET

Init ==
    /\ API_SECRET \in Secrets
    /\ rows = <<>>
    /\ dbUp = TRUE
    /\ reqs = EmptyBag

\* POST /report arrives; the handler validates the API key (lines 84-86).
\* The handler of a rejected request never reads the body.
ReportArrive ==
    /\ \E u \in Users, reason \in Reasons, key \in Keys :
        LET in == [New EXCEPT !.endpoint = "report", !.x_api_key = key]
        IN  Arrive(IF KeyRejected(key)
                   THEN [in EXCEPT !.pc = "done", !.result = 403, !.status = 403]
                   ELSE [in EXCEPT !.pc = "select", !.user_id = u,
                             !.reason = reason, !.prior = Returned200(u)])
    /\ UNCHANGED <<API_SECRET, rows, dbUp>>

\* The existence check of line 90 and the branch of line 92.
ReportSelect(x) ==
    /\ x.pc = "select"
    /\ LET existing == SelectEq(rows, x.user_id)
           called == [x EXCEPT !.calls = @ + 1]
       IN  Step(x, IF ~dbUp
                   THEN [called EXCEPT !.pc = "respond", !.result = 500]
                   ELSE IF Len(existing) > 0
                   THEN [called EXCEPT !.pc = "update",
                             !.current_count = CurrentCount(existing)]
                   ELSE [called EXCEPT !.pc = "insert"])
    /\ UNCHANGED <<API_SECRET, rows, dbUp>>

\* Mutant: building the response raises inside the try block, after the
\* update went through.
ReportUpdate_raiseAfterWrite(x) ==
    /\ x.pc = "update"
    /\ LET called == [x EXCEPT !.calls = @ + 1, !.pc = "respond"]
       IN  IF dbUp
           THEN /\ rows' = UpdateEq(rows, x.user_id, x.current_count + 1, x.reason)
                /\ Step(x, [called EXCEPT !.result = 500, !.wrote = "update"])
           ELSE /\ rows' = rows
                /\ Step(x, [called EXCEPT !.result = 500])
    /\ UNCHANGED <<API_SECRET, dbUp>>

\* The update of lines 95-98.
ReportUpdate(x) ==
    /\ x.pc = "update"
    /\ LET called == [x EXCEPT !.calls = @ + 1, !.pc = "respond"]
       IN  IF dbUp
           THEN /\ rows' = UpdateEq(rows, x.user_id, x.current_count + 1, x.reason)
                /\ Step(x, [called EXCEPT !.result = 200, !.wrote = "update",
                                          !.count = x.current_count + 1])
           ELSE /\ rows' = rows
                /\ Step(x, [called EXCEPT !.result = 500])
    /\ UNCHANGED <<API_SECRET, dbUp>>

\* The insert of lines 103-107.
ReportInsert(x) ==
    /\ x.pc = "insert"
    /\ LET called == [x EXCEPT !.calls = @ + 1, !.pc = "respond"]
       IN  IF dbUp /\ ~PrimaryKeyViolation(rows, x.user_id)
           THEN /\ rows' = InsertRow(rows, x.user_id, x.reason)
                /\ Step(x, [called EXCEPT !.result = 200, !.wrote = "insert"])
           ELSE /\ rows' = rows
                /\ Step(x, [called EXCEPT !.result = 500])
    /\ UNCHANGED <<API_SECRET, dbUp>>

\* The handler returns (lines 100, 109) or raises HTTPException (line 111).
ReportRespond(x) ==
    /\ x.pc = "respond"
    /\ Step(x, [x EXCEPT !.pc = "done", !.status = x.result])
    /\ UNCHANGED <<API_SECRET, rows, dbUp>>

\* GET /blocklist (lines 59-70).
get_blocklist ==
    /\ LET in == [New EXCEPT !.endpoint = "blocklist", !.pc = "done",
                       !.calls = 1, !.db = dbUp, !.returned = Reported,
                       !.inserted = Inserted]
       IN  IF dbUp
           THEN \E users \in UserLists(rows) :
                   Arrive([in EXCEPT !.result = 200, !.status = 200,
                                     !.count = Len(users), !.users = users])
           ELSE Arrive([in EXCEPT !.result = 500, !.status = 500])
    /\ UNCHANGED <<API_SECRET, rows, dbUp>>

\* Mutant: the health check probes the datastore.
health_check_probe ==
    /\ Arrive([New EXCEPT !.endpoint = "health", !.pc = "done", !.db = dbUp,
                          !.calls = 1,
                          !.result = IF dbUp THEN 200 ELSE 500,
                          !.status = IF dbUp THEN 200 ELSE 500,
                          !.body = IF dbUp THEN "healthy" ELSE "unhealthy"])
    /\ UNCHANGED <<API_SECRET, rows, dbUp>>

\* GET /health (lines 114-117).
health_check ==
    /\ Arrive([New EXCEPT !.endpoint = "health", !.pc = "done", !.db = dbUp,
                          !.result = 200, !.status = 200, !.body = "healthy"])
    /\ UNCHANGED <<API_SECRET, rows, dbUp>>

\* The datastore becomes unavailable, or available again.
DatastoreFail == dbUp /\ dbUp' = FALSE /\ UNCHANGED <<API_SECRET, rows, reqs>>

DatastoreRecover == ~dbUp /\ dbUp' = TRUE /\ UNCHANGED <<API_SECRET, rows, reqs>>

Next ==
    \/ ReportArrive
    \/ \E x \in All : ReportSelect(x)
    \/ \E x \in All : ReportUpdate(x)
    \/ \E x \in All : ReportInsert(x)
    \/ \E x \in All : ReportRespond(x)
    \/ get_blocklist
    \/ health_check
    \/ DatastoreFail
    \/ DatastoreRecover

Spec == Init /\ [][Next]_vars

\* The service starts on a table that an earlier report left one record in.
InitRace ==
    /\ API_SECRET = "s3cret"
    /\ rows = <<[user_id |-> "u1", reason |-> NoneVal, block_count |-> 1]>>
    /\ dbUp = TRUE
    /\ reqs = EmptyBag

SpecRace == InitRace /\ [][Next]_vars

----------------------------------------------------------------------------
\* Vocabulary of the properties.

Reports == {x \in All : x.endpoint = "report"}

\* The reports for user u that passed the key check (the handler reads the
\* body of no other report).
Admitted(u) ==
    CountOf(reqs, LAMBDA x : x.endpoint = "report" /\ x.user_id = u)

\* The reports for user u whose handler has not returned yet.
InFlight(u) ==
    CountOf(reqs, LAMBDA x :
        x.endpoint = "report" /\ x.user_id = u /\ x.pc # "done")

RowsOf(t, u) == SelectEq(t, u)

HasRecord(t, u) == Len(RowsOf(t, u)) > 0

\* The stored block_count of user u; 0 when u has no record.
BlockCount(t, u) == IF HasRecord(t, u) THEN RowsOf(t, u)[1].block_count ELSE 0

\* Request x took a step: one copy of it left the bag.
Moved(x) == CopiesIn(x, reqs') < CopiesIn(x, reqs)

\* Request y is the outcome of a step, or has just arrived.
Landed(y) == CopiesIn(y, reqs') > CopiesIn(y, reqs)

\* A key the contract rejects: absent, empty, or not the configured secret.
BadKey(k) == k = NoneVal \/ k = "" \/ k # API_SECRET

----------------------------------------------------------------------------
\* C1: a POST /report whose x-api-key is absent, empty or different from the
\* configured secret gets 403 at once, after no datastore call and no write,
\* whatever the body, the table and the datastore's availability; and the
\* step that rejects it leaves the table as it was.
C1_BadKeyForbidden ==
    /\ [](\A x \in Reports :
            BadKey(x.x_api_key) =>
                /\ x.pc = "done" /\ x.status = 403
                /\ x.calls = 0 /\ x.wrote = "none")
    /\ [][\A y \in BagToSet(reqs') :
            (Landed(y) /\ y.endpoint = "report" /\ BadKey(y.x_api_key))
                => rows' = rows]_vars

\* Requests without a key and with an empty key were rejected, and the table
\* holds a record while the datastore is down.
C1_Witness ==
    /\ API_SECRET = "s3cret" /\ rows # <<>> /\ ~dbUp
    /\ \E x \in Reports : x.x_api_key = NoneVal /\ x.status = 403
    /\ \E x \in Reports : x.x_api_key = "" /\ x.status = 403

\* C2: for every user_id, once no report for it is in flight, the stored
\* block_count equals the number of POST /report requests for that user_id
\* that returned 200.
C2_CountEqualsReports ==
    \A u \in Users : InFlight(u) = 0 => BlockCount(rows, u) = Returned200(u)

\* C3: the table holds at most one record per user_id, every record has
\* block_count >= 1, and no step removes a user's record.
C3_OneRecordPerUser ==
    /\ [](/\ \A u \in Users : Len(RowsOf(rows, u)) <= 1
          /\ \A i \in DOMAIN rows : rows[i].block_count >= 1)
    /\ [][\A u \in Users : HasRecord(rows, u) => HasRecord(rows', u)]_vars

\* Two first reports of one user ran concurrently: both saw no record, one
\* inserted it and the other was refused.
C3_Witness ==
    \E x, y \in Reports :
        /\ x.user_id = y.user_id
        /\ x.wrote = "insert" /\ x.status = 200
        /\ y.wrote = "none" /\ y.calls = 2 /\ y.current_count = 0
        /\ y.status = 500
        /\ Len(RowsOf(rows, x.user_id)) = 1

\* C4 (as stated): whenever GET /blocklist succeeds, its count equals the
\* length of its users list and the number of distinct user_ids for which
\* some POST /report had returned 200 before the read, and the list holds
\* each of those user_ids exactly once and nothing else.
C4_CountIsReturned ==
    \A x \in All :
        (x.endpoint = "blocklist" /\ x.status = 200) =>
            /\ x.count = Len(x.users)
            /\ x.count = Cardinality(x.returned)
            /\ {x.users[i] : i \in DOMAIN x.users} = x.returned

\* C4 (amended): whenever GET /blocklist succeeds, its count equals the
\* length of its users list and the number of distinct user_ids for which
\* the insert of some POST /report had succeeded before the read (that
\* report returns 200, possibly only after the read), and the list holds
\* each of those user_ids exactly once and nothing else.
C4_CountIsInserted ==
    \A x \in All :
        (x.endpoint = "blocklist" /\ x.status = 200) =>
            /\ x.count = Len(x.users)
            /\ x.count = Cardinality(x.inserted)
            /\ {x.users[i] : i \in DOMAIN x.users} = x.inserted
            /\ x.returned \subseteq x.inserted

\* A GET listed both users, after a report for each had returned 200.
C4_Witness ==
    \E x \in All :
        /\ x.endpoint = "blocklist" /\ x.status = 200 /\ x.count = 2
        /\ x.returned = Users

C6_SecondReport ==
    \A u \in Users : \A b \in Reports :
        (/\ b.user_id = u /\ b.status = 200 /\ b.prior = 1
         /\ Admitted(u) = 2 /\ Returned200(u) = 2) =>
            /\ RowsOf(rows, u) =
                   <<[user_id |-> u, reason |-> b.reason, block_count |-> 2]>>
            /\ b.count = 2
            /\ Len(rows) = 1 => UserLists(rows) = {<<u>>}

\* The second report omitted the reason and replaced the first one's, and
\* a GET /blocklist after the two reports returned count 1.
C6_Witness ==
    /\ \E a, b \in Reports :
        /\ a.user_id = b.user_id
        /\ a.status = 200 /\ a.reason = "spam" /\ a.prior = 0
        /\ b.status = 200 /\ b.reason = NoneVal /\ b.prior = 1
    /\ \E x \in All :
        /\ x.endpoint = "blocklist" /\ x.status = 200 /\ x.count = 1
        /\ Cardinality(x.returned) = 1
    /\ Len(rows) = 1 /\ rows[1].block_count = 2

\* C7: a POST /report that ends in 500 made no write: the datastore call
\* that failed left the table as it was, the handler made no call after it
\* (at most two calls, none repeated), and every step that changes the table
\* belongs to a request that returns 200.
C7_FailureWritesNothing ==
    /\ [](\A x \in Reports :
            /\ x.calls <= 2
            /\ x.result = 500 =>
                /\ x.wrote = "none"
                /\ x.pc \in {"respond", "done"}
            /\ x.status = 500 => x.result = 500)
    /\ [][/\ \A y \in BagToSet(reqs') :
                (Landed(y) /\ y.result = 500) => rows' = rows
          /\ \A x \in Reports :
                (Moved(x) /\ x.result = 500) =>
                    /\ rows' = rows
                    /\ Landed([x EXCEPT !.pc = "done", !.status = 500])]_vars

\* Reports returned 500 after a failed existence read and after a failed
\* update of a record, which still has the block_count the insert gave it.
C7_Witness ==
    /\ \E x \in Reports : x.status = 500 /\ x.calls = 1
    /\ \E x \in Reports :
        /\ x.status = 500 /\ x.calls = 2 /\ x.current_count = 1
        /\ RowsOf(rows, x.user_id) =
               <<[user_id |-> x.user_id, reason |-> NoneVal, block_count |-> 1]>>
        /\ x.reason = "spam"

\* C8: a step changes the rows of user u only if it is a step of a report
\* for u, and it leaves the rows of every other user and their order as
\* they were; so when a single report for u passed the key check and
\* returned 200, u's record is what that report alone leaves (block_count 1
\* and its reason), whatever the reports for other users did.
C8_OtherUsersUntouched ==
    /\ [](\A x \in Reports :
            (x.status = 200 /\ Admitted(x.user_id) = 1) =>
                RowsOf(rows, x.user_id) =
                    <<[user_id |-> x.user_id, reason |-> x.reason,
                       block_count |-> 1]>>)
    /\ [][\A u \in Users :
            RowsOf(rows', u) # RowsOf(rows, u) =>
                \E x \in Reports :
                    /\ Moved(x) /\ x.user_id = u
                    /\ x.pc \in {"insert", "update"}
                    /\ \A v \in Users \ {u} : RowsOf(rows', v) = RowsOf(rows, v)]_vars

\* A user was reported twice while another user's record was in the table.
C8_Witness ==
    /\ Len(rows) = 2
    /\ \E x, y \in Reports :
        /\ x.user_id # y.user_id
        /\ x.wrote = "insert" /\ x.status = 200
        /\ y.wrote = "update" /\ y.status = 200
        /\ BlockCount(rows, x.user_id) = 1
        /\ BlockCount(rows, y.user_id) = 2

\* C9: every GET /health returns 200 with status "healthy", also when the
\* datastore is down, and makes no datastore call.
C9_HealthAlways200 ==
    \A x \in All :
        x.endpoint = "health" =>
            /\ x.status = 200 /\ x.body = "healthy"
            /\ x.calls = 0 /\ x.wrote = "none"

\* GET /health was served while the datastore was down.
C9_Witness ==
    \E x \in All : x.endpoint = "health" /\ ~x.db /\ x.status = 200

\* C10: no step lowers the stored block_count of a user.
C10_CountNeverDecreases ==
    [][\A u \in Users : BlockCount(rows', u) >= BlockCount(rows, u)]_vars

====
